---- MODULE Spec2Model ----
(***************************************************************************)
(* A model of fuzzy-ratio (src/index.ts): fuzzRatio(options) and its       *)
(* helpers getDivisors, getError, getGcd, round and toFuzzed.              *)
(*                                                                         *)
(* Numbers.  A JavaScript number is an IEEE-754 double.  The model keeps   *)
(* four kinds of them apart:                                              *)
(*   - doubles that are integers (the dimensions, the divisors, mod,       *)
(*     ratio, the gcds) are TLA+ integers;                                 *)
(*   - a quotient width / div is the record [num, den]: the double         *)
(*     fl(num / den) is determined by its two integer operands;            *)
(*   - the product (width / div) * div and the differences taken from it   *)
(*     are [whole, ulps, exp], the double  whole + ulps * 2^exp : the      *)
(*     round trip through the division does not always give the integer    *)
(*     back (25 / 11 * 11 is 25.000000000000004);                          *)
(*   - a percentage rounded by round() is an integer count of hundredths.  *)
(***************************************************************************)
EXTENDS Integers, Sequences, FiniteSets, TLC

\* ---------------------------------------------------------------- bounds
\* The largest width and height fuzzRatio is called with.
MaxDim == 14
\* The tolerances tried are 0..MaxTolerance and the multiples of
\* ToleranceStep up to MaxToleranceSteps * ToleranceStep.
MaxTolerance == 2
ToleranceStep == 10
MaxToleranceSteps == 2
\* The longest allowedRatios list tried.
MaxAllowed == 1
\* The largest dimension getError is applied to on its own (GetErrorSpec).
MaxValue == 26

\* ------------------------------------------------------------ arithmetic
RECURSIVE Pow2(_)
Pow2(k) == IF k = 0 THEN 1 ELSE 2 * Pow2(k - 1)

\* floor(log2(n)) for n >= 1: the exponent of the double n.
RECURSIVE Log2(_)
Log2(n) == IF n < 2 THEN 0 ELSE 1 + Log2(n \div 2)

\* 2^k modulo d, without forming 2^k.
RECURSIVE Pow2Mod(_, _)
Pow2Mod(k, d) == IF k = 0 THEN 1 % d ELSE (2 * Pow2Mod(k - 1, d)) % d

\* floor(log2(n / d)) for 1 <= d <= n: the exponent of the double fl(n / d).
QuotientExponent(n, d) ==
    LET a == Log2(n) - Log2(d)
    IN  IF n >= d * Pow2(a) THEN a ELSE a - 1

\* x / 2^sh rounded to the nearest integer, ties to the even one: the
\* rounding every double operation ends with.
RoundHalfEven(x, sh) ==
    LET den == Pow2(sh)
        fl  == IF x >= 0 THEN x \div den ELSE -((-x + den - 1) \div den)
        rem == x - fl * den
    IN  IF 2 * rem < den THEN fl
        ELSE IF 2 * rem > den THEN fl + 1
        ELSE IF fl % 2 = 0 THEN fl ELSE fl + 1

\* The double of an integer.
Whole(n) == [whole |-> n, ulps |-> 0, exp |-> 0]

\* `width / div' (index.ts line 49): the quotient of two integer doubles.
Quotient(n, d) == [num |-> n, den |-> d]

\* `value * divisor' (index.ts line 194) for value = n / d and divisor = d,
\* the only way the code calls getError (lines 71-72, with d <= n).
\*   q = fl(n / d) = M * 2^(a-52) with M the integer nearest to n * 2^(52-a) / d,
\*   so q * d = n + rho * 2^(a-52) exactly, rho = M * d - n * 2^(52-a), where
\*   rho = -R or d - R for R = n * 2^(52-a) mod d (a tie 2R = d cannot occur:
\*   d has fewer factors 2 than 2^(52-a)); the product is then rounded to the
\*   doubles around n, whose gap is 2^(b-52), or 2^(b-53) just below n = 2^b.
\*   Checked against IEEE arithmetic for every 2 <= d <= n / 2, n <= 600.
Times(value, divisor) ==
    LET FractionBits == 52   \* of an IEEE-754 double
        n   == value.num
        d   == value.den
        a   == QuotientExponent(n, d)
        R   == ((n % d) * Pow2Mod(FractionBits - a, d)) % d
        rho == IF 2 * R < d THEN -R ELSE d - R
        b   == Log2(n)
        below == rho < 0 /\ n = Pow2(b)
        sh  == IF below THEN b - 1 - a ELSE b - a
        e   == IF below THEN b - 1 - FractionBits ELSE b - FractionBits
        k   == RoundHalfEven(rho, sh)
    IN  IF R = 0 \/ k = 0 THEN Whole(n)
        ELSE [whole |-> n, ulps |-> k, exp |-> e]

\* Math.floor(value) (line 195) of a quotient of positive integers.
Floor(value) == value.num \div value.den

\* Math.round(value) (line 64): the nearest integer, halves upwards, as a
\* quotient over the same denominator.
Round(value) == Quotient(((2 * value.num + value.den) \div (2 * value.den)) * value.den, value.den)

\* x - y and |x| on [whole, ulps, exp] doubles; y is an integer double.  The
\* results the code keeps (range) are representable, so nothing is rounded.
Minus(x, y) == [whole |-> x.whole - y, ulps |-> x.ulps, exp |-> x.exp]
Negate(x) == [whole |-> -x.whole, ulps |-> -x.ulps, exp |-> x.exp]
IsNegative(x) == x.whole < 0 \/ (x.whole = 0 /\ x.ulps < 0)
MathAbs(x) == IF IsNegative(x) THEN Negate(x) ELSE x

\* x > y for two non-negative doubles built from the same product (same exp).
Greater(x, y) == x.whole > y.whole \/ (x.whole = y.whole /\ x.ulps > y.ulps)

\* x <= t for a double x and an integer t.
AtMost(x, t) == x.whole < t \/ (x.whole = t /\ x.ulps <= 0)

\* --------------------------------------------------------------- helpers
\* getGcd (lines 216-218).  getGcdOneStep is getGcd without the recursion.
getGcdOneStep(left, right) ==
    IF right = 0 THEN left ELSE IF left % right = 0 THEN right ELSE left % right

RECURSIVE getGcd(_, _)
getGcd(left, right) == IF right = 0 THEN left ELSE getGcd(right, left % right)

\* round (lines 220-223) of the fraction value = [num, den] >= 0:
\* Math.round(value * 100) / 100, kept as the integer Math.round(value * 100),
\* the number of hundredths.
round(value) == (2 * 100 * value.num + value.den) \div (2 * value.den)

\* getDivisors (lines 206-214): 2, 3, ..., floor(min(left, right) / 2).
getDivisors(left, right) ==
    LET value == IF left < right THEN left ELSE right
        half  == value \div 2
    IN  [k \in 1..(IF half >= 2 THEN half - 1 ELSE 0) |-> k + 1]

\* The three locals of getError before `closest' (lines 194-196).
Original(value, divisor) == Times(value, divisor)
Mod(value, divisor) == Floor(value) * divisor
Ratio(value, divisor) == Mod(value, divisor) \div divisor

\* `closest' of getError (line 198), as the double it is.
closest(value, divisor) ==
    LET original == Original(value, divisor)
        mod      == Mod(value, divisor)
        ratio    == Ratio(value, divisor)
    IN  IF Greater(MathAbs(Minus(Negate(original), -mod)),
                   MathAbs(Minus(Negate(original), -(mod - ratio))))
        THEN mod - ratio ELSE mod

\* getError (lines 193-204).  percent is in hundredths; range / original * 100
\* is taken on the integers nearest to range and original, which gives the
\* double the code computes for every dimension below 320.
getError(value, divisor) ==
    LET original == Original(value, divisor)
        mod      == Mod(value, divisor)
        ratio    == Ratio(value, divisor)
        range    == MathAbs(Minus(original, closest(value, divisor)))
        percent  == round([num |-> range.whole * 100, den |-> original.whole])
    IN  [range |-> range, percent |-> percent, ratio |-> ratio, mod |-> mod]

\* ------------------------------------------------------- optional values
\* An optional value (`error?', `allowedRatios?', `fuzzed?', `alts?') is the
\* empty sequence when undefined and a one-element sequence when defined.
Undefined == <<>>
Some(x) == <<x>>
IsDefined(o) == o # <<>>
Get(o) == o[1]

\* -------------------------------------------------------------- fuzzRatio
\* `isExact' (lines 63-64).
isExact(ratio) ==
    ratio.height = Round(ratio.height) /\ ratio.width = Round(ratio.width)

\* The joint reduction of the two fuzzed terms (lines 76-78); nextGcd divides
\* both, so the divisions are exact.  notReduced leaves the terms as floored.
notReduced(error) == error

reduced(error) ==
    LET nextGcd == getGcd(error.width.ratio, error.height.ratio)
    IN  [width  |-> [error.width  EXCEPT !.ratio = error.width.ratio \div nextGcd],
         height |-> [error.height EXCEPT !.ratio = error.height.ratio \div nextGcd]]

\* `error' of one ratio (lines 70-78).
errorOf(ratio) ==
    reduced([width  |-> getError(ratio.width, ratio.div),
             height |-> getError(ratio.height, ratio.div)])

\* The tolerance test (lines 80-92).  tolerance is a whole number; percent is
\* in hundredths.  withinToleranceWidthOnly forgets the height.
withinToleranceWidthOnly(error, opts) ==
    IF opts.type = "percent"
    THEN error.width.percent <= 100 * opts.tolerance
    ELSE AtMost(error.width.range, opts.tolerance)

withinTolerance(error, opts) ==
    IF opts.type = "percent"
    THEN error.width.percent <= 100 * opts.tolerance
         /\ error.height.percent <= 100 * opts.tolerance
    ELSE AtMost(error.width.range, opts.tolerance)
         /\ AtMost(error.height.range, opts.tolerance)

\* What one pass of the loop over ratios pushes (lines 62-93).
pushed(ratio, opts) ==
    LET error == errorOf(ratio)
    IN  (IF isExact(ratio) THEN <<ratio>> ELSE <<>>)
        \o (IF withinTolerance(error, opts)
            THEN <<[ratio EXCEPT !.error = Some(error)]>> ELSE <<>>)

\* The effective terms of a candidate (lines 100-101, 114-119): the fuzzed
\* terms when it has an error, else its own width and height, as fractions.
effectiveWidth(ratio) ==
    IF IsDefined(ratio.error)
    THEN Quotient(Get(ratio.error).width.ratio, 1) ELSE ratio.width
effectiveHeight(ratio) ==
    IF IsDefined(ratio.error)
    THEN Quotient(Get(ratio.error).height.ratio, 1) ELSE ratio.height

\* a === b for a fraction a and an integer b.
SameNumber(a, b) == a.num = b * a.den

\* The predicate of the allow-list filter (lines 95-110).  isAllowedWidthOnly
\* matches on the width alone.
isAllowedWidthOnly(ratio, opts) ==
    IF ~IsDefined(opts.allowedRatios) THEN TRUE
    ELSE LET list == Get(opts.allowedRatios)
         IN  ratio.div = 1
             \/ \E k \in DOMAIN list : SameNumber(effectiveWidth(ratio), list[k].width)

isAllowed(ratio, opts) ==
    IF ~IsDefined(opts.allowedRatios) THEN TRUE
    ELSE LET list == Get(opts.allowedRatios)
         IN  ratio.div = 1
             \/ \E k \in DOMAIN list :
                    /\ SameNumber(effectiveWidth(ratio), list[k].width)
                    /\ SameNumber(effectiveHeight(ratio), list[k].height)

\* leftSum / rightSum (lines 114-119), a fraction: both terms of a candidate
\* have the denominator div.
sumOf(ratio) ==
    LET w == effectiveWidth(ratio)
        h == effectiveHeight(ratio)
    IN  Quotient(w.num * h.den + h.num * w.den, w.den * h.den)

\* The comparator of the sort (lines 113-122).  compareDescending has the
\* two outcomes 1 and -1 exchanged.
compareDescending(left, right) ==
    LET leftSum == sumOf(left)
        rightSum == sumOf(right)
    IN  IF leftSum.num * rightSum.den < rightSum.num * leftSum.den THEN 1
        ELSE IF leftSum.num * rightSum.den = rightSum.num * leftSum.den THEN 0
        ELSE -1

compare(left, right) ==
    LET leftSum == sumOf(left)
        rightSum == sumOf(right)
    IN  IF leftSum.num * rightSum.den > rightSum.num * leftSum.den THEN 1
        ELSE IF leftSum.num * rightSum.den = rightSum.num * leftSum.den THEN 0
        ELSE -1

\* Array.prototype.sort with that comparator (line 113).  The sort is stable
\* (ECMAScript 2019): x is placed after every element it does not precede.
\* unsorted is the array left as it was.
RECURSIVE insert(_, _)
insert(seq, x) ==
    IF seq = <<>> THEN <<x>>
    ELSE IF compare(seq[Len(seq)], x) <= 0 THEN Append(seq, x)
    ELSE Append(insert(SubSeq(seq, 1, Len(seq) - 1), x), seq[Len(seq)])

unsorted(seq) == seq

RECURSIVE sort(_)
sort(seq) ==
    IF seq = <<>> THEN <<>>
    ELSE insert(sort(SubSeq(seq, 1, Len(seq) - 1)), seq[Len(seq)])

\* toFuzzed (lines 165-191).
toFuzzed(ratio, error) ==
    [width  |-> error.width.ratio,
     height |-> error.height.ratio,
     error  |-> [width  |-> [diff    |-> error.width.range,
                             percent |-> error.width.percent,
                             mod     |-> error.width.mod,
                             ratio   |-> error.width.ratio],
                 height |-> [diff    |-> error.height.range,
                             percent |-> error.height.percent,
                             mod     |-> error.height.mod,
                             ratio   |-> error.height.ratio]],
     original |-> [width |-> ratio.width, height |-> ratio.height]]

\* The key of an alternate in the Map (line 144): the two terms in decimal,
\* joined by a colon.
idOf(fuzzed) == ToString(fuzzed.width) \o ":" \o ToString(fuzzed.height)

\* alts.get(id) (line 145): the position of the key in the Map, 0 if absent.
\* A Map keeps its entries in the order their keys were first set.
position(map, id) ==
    IF \E k \in DOMAIN map : map[k].id = id
    THEN CHOOSE k \in DOMAIN map : map[k].id = id
    ELSE 0

\* One pass of the loop over sorted.slice(1) (lines 137-156).  addedAlways
\* never looks the key up; addedKeepingFirst never replaces an entry.
addedAlways(map, ratio) ==
    IF ~IsDefined(ratio.error) THEN map
    ELSE LET fuzzed == toFuzzed(ratio, Get(ratio.error))
         IN  Append(map, [id |-> idOf(fuzzed), value |-> fuzzed])

addedKeepingFirst(map, ratio) ==
    IF ~IsDefined(ratio.error) THEN map
    ELSE LET fuzzed == toFuzzed(ratio, Get(ratio.error))
             id     == idOf(fuzzed)
         IN  IF position(map, id) = 0
             THEN Append(map, [id |-> id, value |-> fuzzed])
             ELSE map

added(map, ratio) ==
    IF ~IsDefined(ratio.error) THEN map
    ELSE LET error  == Get(ratio.error)
             fuzzed == toFuzzed(ratio, error)
             id     == idOf(fuzzed)
             at     == position(map, id)
         IN  IF at = 0 THEN Append(map, [id |-> id, value |-> fuzzed])
             ELSE LET existing     == map[at].value
                      existingDiff == existing.error.width.percent
                                      + existing.error.height.percent
                      newDiff      == error.width.percent + error.height.percent
                  IN  IF newDiff < existingDiff
                      THEN [map EXCEPT ![at] = [id |-> id, value |-> fuzzed]]
                      ELSE map

\* `ratio', the exact reduction (lines 124-128).
unfuzzed(opts) ==
    LET unfuzzedDiv == getGcd(opts.width, opts.height)
    IN  [width  |-> Quotient(opts.width, unfuzzedDiv),
         height |-> Quotient(opts.height, unfuzzedDiv)]

\* ------------------------------------------------------------ the inputs
Dims == 1..MaxDim
Tolerances == (0..MaxTolerance) \cup {ToleranceStep * k : k \in 1..MaxToleranceSteps}
AllowedPool == {[width |-> 1, height |-> 1],
                [width |-> 2, height |-> 1],
                [width |-> 3, height |-> 2]}
AllowedLists == UNION {[1..n -> AllowedPool] : n \in 0..MaxAllowed}
OptionsSet ==
    [width : Dims, height : Dims, type : {"percent", "range"},
     tolerance : Tolerances,
     allowedRatios : {Undefined} \cup {Some(list) : list \in AllowedLists}]

\* ------------------------------------------------------------- the state
VARIABLES
    options,            \* the argument of fuzzRatio
    pc,                 \* where the call is
    ratios,             \* line 49
    i,                  \* the loop of lines 62-93: the next index of ratios
    acceptableRatios,   \* line 61
    allowedRatios,      \* line 95; sorted in place by line 113
    sorted,             \* line 113: the same array as allowedRatios
    ratio,              \* line 125
    fuzzedRatio,        \* line 134
    alts,               \* line 136: the Map, as its entries in insertion order
    j,                  \* the loop of lines 137-156: the next index of sorted
    result,             \* what fuzzRatio returns
    value,              \* getError on its own: the dimension n and the
    divisor,            \*   divisor d of a call getError(n / d, d)
    error               \*   and what it returned

vars == <<options, pc, ratios, i, acceptableRatios, allowedRatios, sorted,
          ratio, fuzzedRatio, alts, j, result, value, divisor, error>>

errorVars == <<value, divisor, error>>

Init ==
    /\ options \in OptionsSet
    /\ pc = "divide"
    /\ ratios = <<>>
    /\ i = 1
    /\ acceptableRatios = <<>>
    /\ allowedRatios = <<>>
    /\ sorted = <<>>
    /\ ratio = Undefined
    /\ fuzzedRatio = Undefined
    /\ alts = <<>>
    /\ j = 2
    /\ result = Undefined
    /\ value = 1 /\ divisor = 1 /\ error = Undefined

\* Lines 46-49: the divisors, and the two dimensions divided by each.
Divide ==
    /\ pc = "divide"
    /\ LET divs == getDivisors(options.width, options.height)
       IN  ratios' = [k \in DOMAIN divs |->
                        [width  |-> Quotient(options.width, divs[k]),
                         height |-> Quotient(options.height, divs[k]),
                         div    |-> divs[k],
                         error  |-> Undefined]]
    /\ pc' = "evaluate"
    /\ UNCHANGED <<options, i, acceptableRatios, allowedRatios, sorted, ratio,
                   fuzzedRatio, alts, j, result, errorVars>>

\* Lines 62-93: one pass of the loop over ratios.
Evaluate ==
    /\ pc = "evaluate"
    /\ i <= Len(ratios)
    /\ acceptableRatios' = acceptableRatios \o pushed(ratios[i], options)
    /\ i' = i + 1
    /\ UNCHANGED <<options, pc, ratios, allowedRatios, sorted, ratio,
                   fuzzedRatio, alts, j, result, errorVars>>

\* Lines 95-110: the allow-list filter, once the loop is over.
Filter ==
    /\ pc = "evaluate"
    /\ i > Len(ratios)
    /\ allowedRatios' = SelectSeq(acceptableRatios, LAMBDA r : isAllowed(r, options))
    /\ pc' = "sort"
    /\ UNCHANGED <<options, ratios, i, acceptableRatios, sorted, ratio,
                   fuzzedRatio, alts, j, result, errorVars>>

\* Lines 113-122: the sort, in place.
Sort ==
    /\ pc = "sort"
    /\ sorted' = sort(allowedRatios)
    /\ allowedRatios' = sorted'
    /\ pc' = "reduce"
    /\ UNCHANGED <<options, ratios, i, acceptableRatios, ratio, fuzzedRatio,
                   alts, j, result, errorVars>>

\* Lines 124-136: the exact ratio, the early return when nothing was kept,
\* and the best candidate.
Reduce ==
    /\ pc = "reduce"
    /\ ratio' = Some(unfuzzed(options))
    /\ IF sorted = <<>>
       THEN /\ result' = Some([ratio  |-> unfuzzed(options),
                               fuzzed |-> Undefined,
                               alts   |-> Undefined])
            /\ pc' = "done"
            /\ UNCHANGED fuzzedRatio
       ELSE /\ fuzzedRatio' = IF IsDefined(sorted[1].error)
                              THEN Some(toFuzzed(sorted[1], Get(sorted[1].error)))
                              ELSE Undefined
            /\ pc' = "alts"
            /\ UNCHANGED result
    /\ UNCHANGED <<options, ratios, i, acceptableRatios, allowedRatios, sorted,
                   alts, j, errorVars>>

\* Lines 137-156: one pass of the loop over sorted.slice(1).
Alternate ==
    /\ pc = "alts"
    /\ j <= Len(sorted)
    /\ alts' = added(alts, sorted[j])
    /\ j' = j + 1
    /\ UNCHANGED <<options, pc, ratios, i, acceptableRatios, allowedRatios,
                   sorted, ratio, fuzzedRatio, result, errorVars>>

\* Lines 158-162: the result, once the loop is over.
Return ==
    /\ pc = "alts"
    /\ j > Len(sorted)
    /\ result' = Some([ratio  |-> Get(ratio),
                       fuzzed |-> fuzzedRatio,
                       alts   |-> Some([k \in DOMAIN alts |-> alts[k].value])])
    /\ pc' = "done"
    /\ UNCHANGED <<options, ratios, i, acceptableRatios, allowedRatios, sorted,
                   ratio, fuzzedRatio, alts, j, errorVars>>

Next == Divide \/ Evaluate \/ Filter \/ Sort \/ Reduce \/ Alternate \/ Return

Spec == Init /\ [][Next]_vars

\* ------------------------------------------------- getError on its own
\* getError(n / d, d) for a dimension n and one of the divisors the code
\* pairs it with: d is in getDivisors(width, height) and n is width or
\* height, so 2 <= d <= floor(n / 2), and every such d occurs (height = 2d).
InitGetError ==
    /\ value \in 1..MaxValue
    /\ divisor \in {getDivisors(value, value)[k] : k \in DOMAIN getDivisors(value, value)}
    /\ error = Undefined
    /\ pc = "getError"
    /\ options = [width |-> value, height |-> value, type |-> "range",
                  tolerance |-> 0, allowedRatios |-> Undefined]
    /\ ratios = <<>> /\ i = 1 /\ acceptableRatios = <<>> /\ allowedRatios = <<>>
    /\ sorted = <<>> /\ ratio = Undefined /\ fuzzedRatio = Undefined
    /\ alts = <<>> /\ j = 2 /\ result = Undefined

\* Lines 193-204.
GetError ==
    /\ pc = "getError"
    /\ error' = Some(getError(Quotient(value, divisor), divisor))
    /\ pc' = "returned"
    /\ UNCHANGED <<options, ratios, i, acceptableRatios, allowedRatios, sorted,
                   ratio, fuzzedRatio, alts, j, result, value, divisor>>

NextGetError == GetError

GetErrorSpec == InitGetError /\ [][NextGetError]_vars

\* ------------------------------------------------------------ the claims
Done == pc = "done"

Range(seq) == {seq[k] : k \in DOMAIN seq}

\* The FuzzRatio records of the result: fuzzed and every entry of alts.
ReturnedAlts ==
    IF IsDefined(result) /\ IsDefined(Get(result).alts)
    THEN Get(Get(result).alts) ELSE <<>>
ReturnedFuzzed ==
    IF IsDefined(result) /\ IsDefined(Get(result).fuzzed)
    THEN {Get(Get(result).fuzzed)} ELSE {}
Returned == ReturnedFuzzed \cup Range(ReturnedAlts)

Min(a, b) == IF a < b THEN a ELSE b
Coprime(a, b) == \A k \in 2..Min(a, b) : ~(a % k = 0 /\ b % k = 0)
IsInteger(q) == q.num % q.den = 0

\* The candidates that carry an error, passed the tolerance test and the
\* allow-list filter, and the exact ones that passed the filter.
Survivors == {c \in Range(acceptableRatios) : isAllowed(c, options)}
FuzzedSurvivors == {c \in Survivors : IsDefined(c.error)}
ExactSurvivors == {c \in Survivors : ~IsDefined(c.error)}
SumAtMost(c, other) ==
    sumOf(c).num * sumOf(other).den <= sumOf(other).num * sumOf(c).den
TermSum(c) == Get(c.error).width.ratio + Get(c.error).height.ratio
CombinedError(c) == Get(c.error).width.percent + Get(c.error).height.percent

\* C1: the returned ratio is the exact reduction of the input: both terms
\* are integers, ratio.width * height = ratio.height * width, and the terms
\* are coprime, whatever type, tolerance and allowedRatios are.
ReductionCorrect ==
    Done =>
        LET r == Get(result).ratio
            w == r.width.num \div r.width.den
            h == r.height.num \div r.height.den
        IN  /\ IsInteger(r.width) /\ IsInteger(r.height)
            /\ w * options.height = h * options.width
            /\ Coprime(w, h)

\* C1 witness: a finished call whose input was not already in lowest terms.
ReductionWitness ==
    /\ Done
    /\ ~Coprime(options.width, options.height)
    /\ Get(result).ratio.width.num \div Get(result).ratio.width.den < options.width

\* C2: every returned candidate (fuzzed and each of alts) is within the
\* tolerance in the selected metric, in both dimensions.
ToleranceRespected ==
    Done =>
        \A f \in Returned :
            IF options.type = "percent"
            THEN /\ f.error.width.percent <= 100 * options.tolerance
                 /\ f.error.height.percent <= 100 * options.tolerance
            ELSE /\ AtMost(f.error.width.diff, options.tolerance)
                 /\ AtMost(f.error.height.diff, options.tolerance)

\* C2 witness: a candidate with a non-zero error was returned while another
\* divisor was turned down by the tolerance test.
ToleranceWitness ==
    /\ Done
    /\ \E f \in Returned : f.error.width.percent + f.error.height.percent > 0
    /\ \E k \in DOMAIN ratios : ~withinTolerance(errorOf(ratios[k]), options)

\* C3: with a non-empty allowedRatios every returned candidate's pair is an
\* entry of the list, or the candidate came from divisor 1.
AllowListEnforced ==
    (Done /\ IsDefined(options.allowedRatios) /\ Get(options.allowedRatios) # <<>>) =>
        \A f \in Returned :
            \/ \E a \in Range(Get(options.allowedRatios)) :
                   a.width = f.width /\ a.height = f.height
            \/ f.original.width.den = 1

\* C3 witness: a list was given, a candidate was returned, and the filter
\* dropped another candidate.
AllowListWitness ==
    /\ Done
    /\ IsDefined(options.allowedRatios) /\ Get(options.allowedRatios) # <<>>
    /\ Returned # {}
    /\ Len(allowedRatios) < Len(acceptableRatios)

\* C4: every returned FuzzRatio has positive terms that are coprime.
FuzzedCoprime ==
    Done =>
        \A f \in Returned :
            f.width >= 1 /\ f.height >= 1 /\ Coprime(f.width, f.height)

\* C4 witness: a returned candidate whose floored terms had a common factor
\* that the joint reduction removed.
FuzzedCoprimeWitness ==
    /\ Done
    /\ \E f \in Returned : f.error.width.mod > f.width * f.original.width.den

\* C5: no two entries of alts have the same (width, height).
AltsDistinct ==
    Done =>
        \A a, b \in DOMAIN ReturnedAlts :
            a # b => \/ ReturnedAlts[a].width # ReturnedAlts[b].width
                     \/ ReturnedAlts[a].height # ReturnedAlts[b].height

\* C5 witness: alts has two entries, and fewer entries than there were
\* non-winning candidates with an error: two of them had the same pair.
AltsDistinctWitness ==
    /\ Done
    /\ Len(ReturnedAlts) >= 2
    /\ Cardinality({k \in 2..Len(sorted) : IsDefined(sorted[k].error)}) > Len(ReturnedAlts)

\* C6 as stated: fuzzed is defined whenever a candidate survived the
\* tolerance test and the filter, in particular whenever alts is not empty.
FuzzedDefinedWhenCandidates ==
    Done => ((Survivors # {} \/ ReturnedAlts # <<>>) => ReturnedFuzzed # {})

\* C6 as amended: fuzzed is absent only if no candidate survived, or an
\* exact candidate (one without an error) survived whose width + height is
\* at most that of every survivor.
FuzzedAbsentOnlyIfExactWins ==
    (Done /\ ReturnedFuzzed = {}) =>
        \/ Survivors = {}
        \/ \E c \in ExactSurvivors : \A other \in Survivors : SumAtMost(c, other)

\* C6 witness: fuzzed is absent although alts is not empty.
FuzzedAbsentWitness ==
    Done /\ ReturnedFuzzed = {} /\ ReturnedAlts # <<>>

\* C7: when fuzzed is defined its width + height is at most that of every
\* entry of alts and of every candidate with an error that passed the
\* tolerance test and the filter.
LowerSumWins ==
    Done =>
        \A f \in ReturnedFuzzed :
            /\ \A a \in Range(ReturnedAlts) : f.width + f.height <= a.width + a.height
            /\ \A c \in FuzzedSurvivors : f.width + f.height <= TermSum(c)

\* C7 witness: fuzzed is defined, an entry of alts has a larger sum, and
\* the winner was not the first candidate pushed.
LowerSumWitness ==
    /\ Done
    /\ \E f \in ReturnedFuzzed :
          /\ \E a \in Range(ReturnedAlts) : f.width + f.height < a.width + a.height
          /\ f.original.width.den # acceptableRatios[1].div

\* C8 as stated: with allowedRatios given, the filter leaves a candidate
\* whenever one passed the tolerance test.
FilterNeverEmpties ==
    (pc \in {"sort", "reduce", "alts", "done"}
        /\ IsDefined(options.allowedRatios) /\ acceptableRatios # <<>>)
    => allowedRatios # <<>>

\* C9: the entry kept for a pair has the least combined percent error of
\* all non-winning (rank 1 and later) candidates with an error and that pair.
AltsKeepLowestError ==
    Done =>
        \A a \in Range(ReturnedAlts) :
            \A k \in 2..Len(sorted) :
                (IsDefined(sorted[k].error)
                    /\ Get(sorted[k].error).width.ratio = a.width
                    /\ Get(sorted[k].error).height.ratio = a.height)
                => a.error.width.percent + a.error.height.percent
                       <= CombinedError(sorted[k])

\* C9 witness: of two non-winning candidates with the same pair the later
\* one has the smaller combined error, so an entry of alts was replaced.
AltsKeepLowestWitness ==
    /\ Done
    /\ ReturnedAlts # <<>>
    /\ \E k, m \in 2..Len(sorted) :
          /\ k < m
          /\ IsDefined(sorted[k].error) /\ IsDefined(sorted[m].error)
          /\ Get(sorted[k].error).width.ratio = Get(sorted[m].error).width.ratio
          /\ Get(sorted[k].error).height.ratio = Get(sorted[m].error).height.ratio
          /\ CombinedError(sorted[m]) < CombinedError(sorted[k])

\* C10 as stated: getError(n / d, d) never takes the `mod - ratio' branch,
\* closest = mod = floor(n / d) * d, range = n mod d, ratio = floor(n / d) >= 2.
GetErrorExactRemainder ==
    pc = "returned" =>
        LET e == Get(error)
        IN  /\ closest(Quotient(value, divisor), divisor) = e.mod
            /\ e.mod = (value \div divisor) * divisor
            /\ e.range = Whole(value % divisor)
            /\ e.ratio = value \div divisor
            /\ e.ratio >= 2

\* The part of C10 that does not depend on the product (n / d) * d being n:
\* the branch is never taken, and range is within one rounding of n mod d.
GetErrorRoundsDown ==
    pc = "returned" =>
        LET e == Get(error)
        IN  /\ closest(Quotient(value, divisor), divisor) = e.mod
            /\ e.mod = (value \div divisor) * divisor
            /\ e.range.whole = value % divisor
            /\ e.range.ulps \in {-1, 0, 1}
            /\ e.ratio = value \div divisor
            /\ e.ratio >= 2

====
